---- MODULE Spec2Model ----
(***************************************************************************)
(* Model of the ONVIF interface generator (src/src/processor.ts, the       *)
(* current revision that starts at line 600 of that file).                 *)
(*                                                                         *)
(* JavaScript strings are TLA+ strings; an absent (undefined) attribute is *)
(* the empty string, which the code cannot tell from an empty attribute    *)
(* wherever it tests one (!x, x && ..., x === 'literal').  An optional     *)
(* child array of the xml2js tree is a sequence that is empty when the     *)
(* child is absent.  Documentation comments are left out: they decorate a  *)
(* node and never change it (createAnnotationIfExists returns its node).   *)
(***************************************************************************)
EXTENDS Integers, Sequences, FiniteSets, TLC

(***************************************************************************)
(* Bounds of the model.                                                    *)
(***************************************************************************)
MaxDocs == 2

MaxDecls == 2

(***************************************************************************)
(* String primitives of JavaScript used by the code.                       *)
(***************************************************************************)
Absent == ""

LowerLetters == "abcdefghijklmnopqrstuvwxyz"

UpperLetters == "ABCDEFGHIJKLMNOPQRSTUVWXYZ"

\* s.charAt(i): the empty string when i is out of range
CharAt(s, i) == IF i >= 0 /\ i < Len(s) THEN SubSeq(s, i + 1, i + 1) ELSE ""

\* s.slice(from) for 0 <= from
Slice(s, from) == SubSeq(s, from + 1, Len(s))

RECURSIVE IndexFrom(_, _, _)
IndexFrom(s, c, i) ==
  IF i >= Len(s) THEN -1
  ELSE IF CharAt(s, i) = c THEN i ELSE IndexFrom(s, c, i + 1)

\* s.indexOf(c) for a one-character c: -1 when c does not occur
IndexOf(s, c) == IndexFrom(s, c, 0)

RECURSIVE LastIndexFrom(_, _, _)
LastIndexFrom(s, c, i) ==
  IF i < 0 THEN -1
  ELSE IF CharAt(s, i) = c THEN i ELSE LastIndexFrom(s, c, i - 1)

LastIndexOf(s, c) == LastIndexFrom(s, c, Len(s) - 1)

\* s.includes(sub)
Includes(s, sub) ==
  \E i \in 0..(Len(s) - Len(sub)) : SubSeq(s, i + 1, i + Len(sub)) = sub

\* c.toUpperCase() and c.toLowerCase() of a string of at most one character
ToUpperCase(c) ==
  LET i == IndexOf(LowerLetters, c)
  IN IF c = "" \/ i = -1 THEN c ELSE CharAt(UpperLetters, i)

ToLowerCase(c) ==
  LET i == IndexOf(UpperLetters, c)
  IN IF c = "" \/ i = -1 THEN c ELSE CharAt(LowerLetters, i)

RECURSIVE StripHyphenPeriod(_)
\* name.replace(/[-.]/g, '')
StripHyphenPeriod(s) ==
  IF s = "" THEN ""
  ELSE IF Head(s) \in {"-", "."} THEN StripHyphenPeriod(Tail(s))
       ELSE Head(s) \o StripHyphenPeriod(Tail(s))

\* /[-.]/g.test(name)
HasHyphenPeriod(s) == IndexOf(s, "-") # -1 \/ IndexOf(s, ".") # -1

\* typeName.charAt(0) === typeName.charAt(0).toUpperCase()
Capitalized(typeName) == CharAt(typeName, 0) = ToUpperCase(CharAt(typeName, 0))

BASICS_FILENAME == "basics"

(***************************************************************************)
(* Primitive Type Mapper and Name Normalizer.                              *)
(***************************************************************************)
NumberTypes ==
  {"xs:double", "xs:float", "xs:int", "xs:integer", "xs:short", "xs:signedInt",
   "xs:unsignedInt", "xs:unsignedShort", "xs:nonNegativeInteger"}

UnknownTypes ==
  {"xs:hexBinary", "xs:base64Binary", "wsnt:NotificationMessageHolderType",
   "soapenv:Envelope", "soapenv:Fault", "xs:anySimpleType", "xs:QName",
   "wsnt:TopicExpressionType", "wsnt:QueryExpressionType",
   "wsnt:AbsoluteOrRelativeTimeType", "wsa:EndpointReferenceType",
   "mpqf:MpegQueryType", "tt:Object"}

\* a mapper whose default keeps the namespace prefix
dataTypesQualified(xsdType) ==
  IF xsdType = Absent THEN "unknown"
  ELSE IF xsdType \in NumberTypes THEN "number"
  ELSE IF xsdType = "xs:dateTime" THEN "Date"
  ELSE IF xsdType = "xs:token" THEN "string"
  ELSE IF xsdType = "xs:anyURI" THEN "AnyURI"
  ELSE IF xsdType = "xs:anyType" THEN "any"
  ELSE IF xsdType \in UnknownTypes THEN "unknown"
  ELSE IF xsdType = "xs:duration" THEN "Duration"
  ELSE IF xsdType = "xs:positiveInteger" THEN "PositiveInteger"
  ELSE IF xsdType = "xs:time" THEN "Time"
  ELSE xsdType

dataTypes(xsdType) ==
  IF xsdType = Absent THEN "unknown"
  ELSE IF xsdType \in NumberTypes THEN "number"
  ELSE IF xsdType = "xs:dateTime" THEN "Date"
  ELSE IF xsdType = "xs:token" THEN "string"
  ELSE IF xsdType = "xs:anyURI" THEN "AnyURI"
  ELSE IF xsdType = "xs:anyType" THEN "any"
  ELSE IF xsdType \in UnknownTypes THEN "unknown"
  ELSE IF xsdType = "xs:duration" THEN "Duration"
  ELSE IF xsdType = "xs:positiveInteger" THEN "PositiveInteger"
  ELSE IF xsdType = "xs:time" THEN "Time"
  ELSE Slice(xsdType, IndexOf(xsdType, ":") + 1)

cleanName(name) ==
  IF name = "Object" THEN "OnvifObject" ELSE StripHyphenPeriod(name)

\* a field name whose leading character is always lower-cased
camelCaseAlways(name) ==
  LET n1 == ToLowerCase(CharAt(name, 0)) \o Slice(name, 1)
  IN IF HasHyphenPeriod(n1) THEN "'" \o n1 \o "'" ELSE n1

camelCase(name) ==
  LET secondLetter == CharAt(name, 1)
      n1 == IF secondLetter # "" /\ ToUpperCase(secondLetter) # secondLetter
            THEN ToLowerCase(CharAt(name, 0)) \o Slice(name, 1)
            ELSE name
  IN IF HasHyphenPeriod(n1) THEN "'" \o n1 \o "'" ELSE n1

(***************************************************************************)
(* The declaration IR handed to the renderer.  Every node has the same     *)
(* fields; a field a kind does not use is empty.                           *)
(*   kind      "alias" | "union" | "array" | "interface" | "import" | "nl" *)
(*   id        declared identifier                                         *)
(*   ref       referenced type of an alias or of the items of an array     *)
(*   values    literals of a union, imported names of an import            *)
(*   heritage  names of the extends clause (none or one)                   *)
(*   members   property signatures of an interface                         *)
(*   from      module specifier of an import                               *)
(***************************************************************************)
Node(kind, id, ref, values, heritage, members, from) ==
  [kind |-> kind, id |-> id, ref |-> ref, values |-> values,
   heritage |-> heritage, members |-> members, from |-> from]

TypeAlias(id, ref) == Node("alias", id, ref, <<>>, <<>>, <<>>, "")

UnionAlias(id, values) == Node("union", id, "", values, <<>>, <<>>, "")

ArrayAlias(id, ref) == Node("array", id, ref, <<>>, <<>>, <<>>, "")

InterfaceDeclaration(id, heritage, members) ==
  Node("interface", id, "", <<>>, heritage, members, "")

ImportDeclaration(types, fileName) ==
  Node("import", "", "", types, <<>>, <<>>, "./" \o fileName)

NewLineNode == Node("nl", "\n", "", <<>>, <<>>, <<>>, "")

PropertySignature(key, optional, type, array) ==
  [key |-> key, optional |-> optional, type |-> type, array |-> array]

BuiltInTypes ==
  << <<"AnyURI", "string">>, <<"FilterType", "any">>,
     <<"NCName", "string">>, <<"Duration", "string">> >>

\* generateBuiltIns: the nodes of the primitives module and the seed of links
generateBuiltInNodes ==
  [i \in 1..Len(BuiltInTypes) |-> TypeAlias(BuiltInTypes[i][1], BuiltInTypes[i][2])]

\* a Registry that starts empty
generateBuiltInLinksEmpty == <<>>

generateBuiltInLinks ==
  [name \in {BuiltInTypes[i][1] : i \in 1..Len(BuiltInTypes)} |-> BASICS_FILENAME]

(***************************************************************************)
(* The parsed schema tree (IAttribute, ISimpleType, IComplexType,          *)
(* IElement).  Every attribute or sequence element carries a name or a     *)
(* ref.                                                                    *)
(***************************************************************************)
Attribute(name, ref, type, use, minOccurs, maxOccurs, complexType) ==
  [name |-> name, ref |-> ref, type |-> type, use |-> use,
   minOccurs |-> minOccurs, maxOccurs |-> maxOccurs, complexType |-> complexType]

\* one xs:sequence: its xs:element children and the namespaces of its xs:any
\* children
Sequence(element, any) == [element |-> element, any |-> any]

\* one xs:complexContent/xs:extension
Extension(base, sequence, attribute) ==
  [base |-> base, sequence |-> sequence, attribute |-> attribute]

ComplexType(name, complexContent, attribute, sequence) ==
  [name |-> name, complexContent |-> complexContent,
   attribute |-> attribute, sequence |-> sequence]

\* one xs:enumeration child of a restriction
Enumeration(value) == [value |-> value]

Restriction(base, enumeration) == [base |-> base, enumeration |-> enumeration]

SimpleType(name, restriction, list) ==
  [name |-> name, restriction |-> restriction, list |-> list]

Element(name, type, complexType) ==
  [name |-> name, type |-> type, complexType |-> complexType]

(***************************************************************************)
(* Processor.  A context c holds the fields of one Processor together with *)
(* the shared links map and the console:                                   *)
(*   fileName, nodes, declaredTypes, usedTypes   fields of the Processor   *)
(*            (usedTypes in insertion order, as suffix iterates it)        *)
(*   links    the Type Registry, name -> owning module                     *)
(*   log      console output of the generation and resolver code           *)
(*   err      an exception is propagating                                  *)
(*   calls    the names addNode has been called with, in call order        *)
(***************************************************************************)
\* Set.prototype.add on an insertion-ordered Set kept as a sequence
SetAdd(set, x) == IF \E i \in 1..Len(set) : set[i] = x THEN set ELSE Append(set, x)

Range(seq) == {seq[i] : i \in 1..Len(seq)}

LogLine(level, msg) == [level |-> level, msg |-> msg]

\* addNode that registers the calling module whether or not the name is owned
addNodeOverwrite(c, name, node) ==
  LET c1 == [c EXCEPT !.calls = Append(@, name),
                      !.links = (name :> c.fileName) @@ c.links]
  IN IF name \in c1.declaredTypes
     THEN [c1 EXCEPT !.log = Append(@, LogLine("log",
                 name \o " in " \o c1.links[name] \o " already declared"))]
     ELSE [c1 EXCEPT !.declaredTypes = @ \cup {name},
                     !.nodes = Append(@, node)]

\* addNode that drops a declaration whose name another module owns
addNodeDropOwned(c, name, node) ==
  LET c1 == [c EXCEPT !.calls = Append(@, name)]
  IN IF name \in DOMAIN c.links
     THEN IF c.links[name] # c.fileName \/ name \in c.declaredTypes
          THEN c1
          ELSE [c1 EXCEPT !.declaredTypes = @ \cup {name},
                          !.nodes = Append(@, node)]
     ELSE [c1 EXCEPT !.links = (name :> c.fileName) @@ c.links,
                     !.declaredTypes = @ \cup {name},
                     !.nodes = Append(@, node)]

\* addNode with the message of line 974 switched on
addNodeReporting(c, name, node) ==
  LET c1 == IF name \in DOMAIN c.links
            THEN [c EXCEPT !.calls = Append(@, name),
                           !.log = Append(@, LogLine("log",
                               name \o " in " \o c.links[name] \o " already exists"))]
            ELSE [c EXCEPT !.calls = Append(@, name),
                           !.links = (name :> c.fileName) @@ c.links]
  IN IF name \in c1.declaredTypes
     THEN [c1 EXCEPT !.log = Append(@, LogLine("log",
                 name \o " in " \o c1.links[name] \o " already declared"))]
     ELSE [c1 EXCEPT !.declaredTypes = @ \cup {name},
                     !.nodes = Append(@, node)]

\* an addNode that leaves the Registry alone
addNodeUnregistered(c, name, node) ==
  LET c1 == [c EXCEPT !.calls = Append(@, name)]
  IN IF name \in c1.declaredTypes
     THEN [c1 EXCEPT !.log = Append(@, LogLine("log",
                 name \o " in " \o c1.fileName \o " already declared"))]
     ELSE [c1 EXCEPT !.declaredTypes = @ \cup {name},
                     !.nodes = Append(@, node)]

addNode(c, name, node) ==
  LET c1 == IF name \in DOMAIN c.links
            THEN [c EXCEPT !.calls = Append(@, name)]
            ELSE [c EXCEPT !.calls = Append(@, name),
                           !.links = (name :> c.fileName) @@ c.links]
  IN IF name \in c1.declaredTypes
     THEN [c1 EXCEPT !.log = Append(@, LogLine("log",
                 name \o " in " \o c1.links[name] \o " already declared"))]
     ELSE [c1 EXCEPT !.declaredTypes = @ \cup {name},
                     !.nodes = Append(@, node)]

\* the heritage clause of extendInterface
heritageClause(interfaceName) ==
  IF interfaceName # "" THEN <<interfaceName>> ELSE <<>>

\* an extendInterface that does not mark the base as used
extendInterfaceUnused(c, interfaceName) == c

\* the effect of extendInterface on the Processor
extendInterface(c, interfaceName) ==
  IF interfaceName # ""
  THEN [c EXCEPT !.usedTypes = SetAdd(@, interfaceName)]
  ELSE c

\* literals that keep one copy of every value
literalTypesDistinct(enumeration) ==
  LET RECURSIVE distinct(_, _)
      distinct(seen, rest) ==
        IF rest = <<>> THEN seen
        ELSE distinct(SetAdd(seen, Head(rest).value), Tail(rest))
  IN distinct(<<>>, enumeration)

\* enumeration.map((enumValue) => literal of enumValue.meta.value)
literalTypes(enumeration) ==
  [i \in 1..Len(enumeration) |-> enumeration[i].value]

generateSimpleTypeInterface(c, simpleType) ==
  LET name == cleanName(simpleType.name)
  IN IF simpleType.restriction # <<>>
     THEN IF simpleType.restriction[1].enumeration # <<>>
          THEN addNode(c, name, UnionAlias(name,
                         literalTypes(simpleType.restriction[1].enumeration)))
          ELSE LET typeName == dataTypes(simpleType.restriction[1].base)
                   c1 == IF Capitalized(typeName)
                         THEN [c EXCEPT !.usedTypes = SetAdd(@, typeName)]
                         ELSE c
               IN addNode(c1, name, TypeAlias(name, typeName))
     ELSE IF simpleType.list # <<>>
          THEN addNode(c, name, ArrayAlias(name, dataTypes(simpleType.list[1])))
          ELSE c

\* the rule the code has in a comment: optional unless use is required or
\* minOccurs is 1
propertyOfEarlierRule(attribute) ==
  PropertySignature(camelCase(IF attribute.name = Absent /\ attribute.ref # Absent
                              THEN Slice(attribute.ref, 6) ELSE attribute.name),
                    attribute.use # "required" /\ attribute.minOccurs # "1",
                    cleanName(dataTypes(attribute.type)),
                    attribute.maxOccurs = "unbounded")

\* a property that is an array whenever maxOccurs is present
propertyOfRepeated(attribute) ==
  PropertySignature(camelCase(IF attribute.name = Absent /\ attribute.ref # Absent
                              THEN Slice(attribute.ref, 6) ELSE attribute.name),
                    ~(/\ \/ attribute.use = "required"
                         \/ attribute.minOccurs = "1"
                         \/ (attribute.minOccurs = Absent /\ attribute.maxOccurs = Absent)
                      /\ attribute.use # "optional"),
                    cleanName(dataTypes(attribute.type)),
                    attribute.maxOccurs # Absent)

\* the property signature built by createProperty
propertyOf(attribute) ==
  LET typeName == cleanName(dataTypes(attribute.type))
      name == IF attribute.name = Absent /\ attribute.ref # Absent
              THEN Slice(attribute.ref, 6)
              ELSE attribute.name
      required == /\ \/ attribute.use = "required"
                     \/ attribute.minOccurs = "1"
                     \/ (attribute.minOccurs = Absent /\ attribute.maxOccurs = Absent)
                  /\ attribute.use # "optional"
  IN PropertySignature(camelCase(name), ~required, typeName,
                       attribute.maxOccurs = "unbounded")

\* the effect of createProperty on the Processor
createProperty(c, attribute) ==
  LET typeName == cleanName(dataTypes(attribute.type))
  IN IF Capitalized(typeName)
     THEN [c EXCEPT !.usedTypes = SetAdd(@, typeName)]
     ELSE c

\* attributes that keep the use they were declared with
attributeUseDeclared(attribute) == attribute

\* by default attributes are optional
attributeUse(attribute) ==
  IF attribute.use # "required" THEN [attribute EXCEPT !.use = "optional"] ELSE attribute

RECURSIVE attributeMembers(_, _)
\* complexType['xs:attribute'].map(...): r is [c, members]
attributeMembers(r, attributes) ==
  IF attributes = <<>> THEN r
  ELSE LET a == attributeUse(Head(attributes))
       IN attributeMembers([c |-> createProperty(r.c, a),
                            members |-> Append(r.members, propertyOf(a))],
                           Tail(attributes))

IndexSignature == PropertySignature("[key: string]", FALSE, "unknown", FALSE)

\* an index signature for a ##any wildcard at any position of the sequence
anyMembersSome(sequence) ==
  IF \E k \in 1..Len(sequence.any) : sequence.any[k] = "##any"
  THEN <<PropertySignature("[key: string]", FALSE, "unknown", FALSE)>>
  ELSE <<>>

\* the index-signature member a sequence contributes
anyMembers(sequence) ==
  IF sequence.any # <<>> /\ sequence.any[1] = "##any" THEN <<IndexSignature>> ELSE <<>>

\* s.slice(s.indexOf(':') + 1): the local name of a qualified name
localName(qualified) == Slice(qualified, IndexOf(qualified, ":") + 1)

\* a test that compares the name with the qualified base
inheritsItselfQualified(complexType) ==
  /\ complexType.complexContent # <<>>
  /\ complexType.name = complexType.complexContent[1].base

\* a test for self-inheritance that comes after the test for an explicit
\* sequence beside the complex content
inheritsItselfAfterFatal(complexType) ==
  /\ complexType.complexContent # <<>>
  /\ complexType.name = localName(complexType.complexContent[1].base)
  /\ complexType.sequence = <<>>

\* name === heritageName: the type inherits itself
inheritsItself(complexType) ==
  /\ complexType.complexContent # <<>>
  /\ complexType.name = localName(complexType.complexContent[1].base)

RECURSIVE generateComplexTypeInterface(_, _)
RECURSIVE elementMembers(_, _)
\* complexType['xs:sequence'][0]['xs:element'].map(...): r is [c, members]
elementMembers(r, elements) ==
  IF elements = <<>> \/ r.c.err THEN r
  ELSE LET e == Head(elements)
           nested == e.complexType # <<>>
           c1 == IF nested
                 THEN generateComplexTypeInterface(r.c,
                        [e.complexType[1] EXCEPT !.name = e.name])
                 ELSE r.c
           e1 == IF nested THEN [e EXCEPT !.type = "tt:" \o e.name] ELSE e
       IN IF c1.err
          THEN [r EXCEPT !.c = c1]
          ELSE elementMembers([c |-> createProperty(c1, e1),
                               members |-> Append(r.members, propertyOf(e1))],
                              Tail(elements))

generateComplexTypeInterface(c, complexType) ==
  LET name == complexType.name
      hasContent == complexType.complexContent # <<>>
      extension == complexType.complexContent[1]
      heritageName == localName(extension.base)
      c1 == IF hasContent THEN extendInterface(c, heritageName) ELSE c
      heritage == IF hasContent THEN heritageClause(heritageName) ELSE <<>>
      sequence == IF hasContent THEN extension.sequence ELSE complexType.sequence
      attribute == IF hasContent /\ extension.attribute # <<>>
                   THEN extension.attribute
                   ELSE complexType.attribute
      ra == attributeMembers([c |-> c1, members |-> <<>>], attribute)
      re == elementMembers([c |-> ra.c, members |-> <<>>], sequence[1].element)
      withElements == sequence # <<>> /\ sequence[1].element # <<>>
      c2 == IF withElements THEN re.c ELSE ra.c
      members == (ra.members
                  \o (IF withElements THEN re.members ELSE <<>>))
                 \o (IF sequence # <<>> THEN anyMembers(sequence[1]) ELSE <<>>)
  IN IF c.err THEN c
     ELSE IF inheritsItself(complexType)
     THEN c                                        \* type inherits itself
     ELSE IF hasContent /\ complexType.sequence # <<>>
     THEN [c1 EXCEPT !.err = TRUE]                 \* throw new Error(...)
     ELSE IF sequence # <<>> /\ sequence[1].element = <<>> /\ name = "Capabilities"
     THEN ra.c
     ELSE IF c2.err
     THEN c2
     ELSE addNode(c2, name,
                  InterfaceDeclaration(cleanName(name), heritage, members))

\* an element translation without the test for self-inheritance
generateElementTypeUnchecked(c, element) ==
  IF element.complexType # <<>>
  THEN generateComplexTypeInterface(c,
         [element.complexType[1] EXCEPT !.name = element.name])
  ELSE IF element.type # Absent
  THEN LET name == cleanName(element.name)
           heritageName == localName(cleanName(element.type))
       IN IF /\ c.fileName = "devicemgmt"
             /\ element.name = "Capabilities"
             /\ element.type = "tds:DeviceServiceCapabilities"
          THEN c
          ELSE addNode(extendInterface(c, heritageName), name,
                       InterfaceDeclaration(name, heritageClause(heritageName), <<>>))
  ELSE c

generateElementType(c, element) ==
  IF element.complexType # <<>>
  THEN generateComplexTypeInterface(c,
         [element.complexType[1] EXCEPT !.name = element.name])
  ELSE IF element.type # Absent
  THEN LET name == cleanName(element.name)
           extendsName == cleanName(element.type)
           heritageName == localName(extendsName)
       IN IF /\ c.fileName = "devicemgmt"
             /\ element.name = "Capabilities"
             /\ element.type = "tds:DeviceServiceCapabilities"
          THEN c
          ELSE IF name = heritageName
          THEN c
          ELSE addNode(extendInterface(c, heritageName), name,
                       InterfaceDeclaration(name, heritageClause(heritageName), <<>>))
  ELSE c

(***************************************************************************)
(* Import resolver.                                                        *)
(***************************************************************************)
\* a difference that forgets to remove the declared names
differenceNone(used, declared) == used

RECURSIVE difference(_, _)
\* usedTypes.difference(declaredTypes), in the order of usedTypes
difference(used, declared) ==
  IF used = <<>> THEN <<>>
  ELSE IF Head(used) \in declared
       THEN difference(Tail(used), declared)
       ELSE <<Head(used)>> \o difference(Tail(used), declared)

\* a grouping that opens a new entry for every type
pushImportAlways(imports, fileName, type) ==
  Append(imports, [fileName |-> fileName, types |-> <<type>>])

\* imports[fileName].push(type) or imports[fileName] = [type]; imports is
\* the sequence of the entries [fileName, types] in insertion order
pushImport(imports, fileName, type) ==
  IF \E i \in 1..Len(imports) : imports[i].fileName = fileName
  THEN [i \in 1..Len(imports) |->
          IF imports[i].fileName = fileName
          THEN [imports[i] EXCEPT !.types = Append(@, type)]
          ELSE imports[i]]
  ELSE Append(imports, [fileName |-> fileName, types |-> <<type>>])

RECURSIVE collectImports(_, _, _)
\* the for loop of suffix: r is [imports, log]
collectImports(r, types, links) ==
  IF types = <<>> THEN r
  ELSE LET type == Head(types)
       IN IF type \notin DOMAIN links
          THEN collectImports(
                 [r EXCEPT !.log = Append(@, LogLine("warn",
                                      "Type " \o type \o " not found in links"))],
                 Tail(types), links)
          ELSE collectImports(
                 [r EXCEPT !.imports = pushImport(@, links[type], type)],
                 Tail(types), links)

\* suffix: c is the context of the Processor, links the map handed in
suffix(c, links) ==
  LET r == collectImports([imports |-> <<>>, log |-> c.log],
                          difference(c.usedTypes, c.declaredTypes), links)
      importNodes == [i \in 1..Len(r.imports) |->
                        ImportDeclaration(r.imports[i].types, r.imports[i].fileName)]
  IN [c EXCEPT !.nodes = (importNodes \o <<NewLineNode>>) \o @,
               !.log = r.log]

(***************************************************************************)
(* The corpus: the files glob can find and the declarations a document     *)
(* can hold.                                                               *)
(***************************************************************************)
XsdPaths == {"ver10/onvif.xsd", "ver20/media.xsd"}

WsdlPaths == {"ver20/media.wsdl"}

\* the sequences of distinct elements of S of length at most n
Lists(S, n) ==
  {q \in UNION {[1..k -> S] : k \in 0..n} :
     \A i, j \in 1..Len(q) : i # j => q[i] # q[j]}

Attr(name, type, use) == Attribute(name, Absent, type, use, Absent, Absent, <<>>)

Elem(name, type, minOccurs, maxOccurs) ==
  Attribute(name, Absent, type, Absent, minOccurs, maxOccurs, <<>>)

NestedElem(name, complexType) ==
  Attribute(name, Absent, Absent, Absent, Absent, Absent, <<complexType>>)

EmptySequence == Sequence(<<>>, <<>>)

SimpleTypes ==
  { SimpleType("A", <<Restriction("xs:string",
                      <<Enumeration("Idle"), Enumeration("Active")>>)>>, <<>>),
    SimpleType("Duration", <<Restriction("tt:A", <<>>)>>, <<>>),
    SimpleType("B", <<>>, <<"tt:A">>) }

ComplexTypes ==
  { \* references to a type of another module, of the primitives module, of no module
    ComplexType("B", <<>>, <<>>,
      <<Sequence(<<Elem("First", "tt:A", "1", Absent),
                   Elem("Uri", "xs:anyURI", "0", Absent),
                   Elem("Length", "xs:duration", "0", "unbounded"),
                   Elem("Zed", "tt:Zed", Absent, Absent)>>, <<>>)>>),
    \* a reference to itself, and a wildcard
    ComplexType("A", <<>>, <<>>,
      <<Sequence(<<Elem("Next", "tt:A", "0", "unbounded")>>, <<"##any">>)>>),
    \* extension with its own sequence and attributes
    ComplexType("B",
      <<Extension("tt:A", <<Sequence(<<Elem("Count", "xs:int", Absent, Absent)>>, <<>>)>>,
                  <<Attr("Kind", "tt:AB", Absent)>>)>>,
      <<>>, <<>>),
    \* extension without attributes of its own, attributes on the type
    ComplexType("AB", <<Extension("tt:A", <<>>, <<>>)>>,
      <<Attr("token", "xs:string", "required")>>, <<>>),
    \* extension whose base has no local name
    ComplexType("B", <<Extension("tt:", <<>>, <<>>)>>, <<>>, <<>>),
    \* self-extension, with attributes and an explicit sequence
    ComplexType("A",
      <<Extension("tt:A", <<>>, <<Attr("Kind", "tt:AB", Absent)>>)>>, <<>>,
      <<Sequence(<<Elem("Count", "xs:int", Absent, Absent)>>, <<>>)>>),
    \* extension together with an explicit sequence
    ComplexType("B", <<Extension("tt:A", <<>>, <<>>)>>, <<>>, <<EmptySequence>>),
    \* nested anonymous types: one promoted, the next violating the contract
    ComplexType("A", <<>>, <<>>,
      <<Sequence(<<NestedElem("B", ComplexType(Absent, <<>>, <<>>, <<EmptySequence>>)),
                   NestedElem("AB", ComplexType(Absent,
                     <<Extension("tt:A", <<>>, <<>>)>>, <<>>, <<EmptySequence>>))>>,
                 <<>>)>>),
    \* a name that differs from AB only by a hyphen
    ComplexType("A-B", <<>>, <<>>, <<>>),
    \* the Capabilities special case
    ComplexType("Capabilities", <<Extension("tt:A", <<EmptySequence>>, <<>>)>>, <<>>, <<>>) }

Elements ==
  { Element("B", "tt:A", <<>>),
    Element("A", Absent, <<ComplexType(Absent, <<>>, <<>>, <<EmptySequence>>)>>),
    Element("B", Absent, <<>>) }

(***************************************************************************)
(* Run orchestrator (InterfaceProcessor.start).                            *)
(***************************************************************************)
\* path.parse(filePath).name: the last segment without its extension
ParseName(filePath) ==
  LET base == Slice(filePath, LastIndexOf(filePath, "/") + 1)
      dot == LastIndexOf(base, ".")
  IN IF dot <= 0 THEN base ELSE SubSeq(base, 1, dot)

\* the constructor of Processor
NewProcessor(filePath) ==
  [filePath |-> filePath,
   fileName |-> ParseName(filePath) \o (IF Includes(filePath, "ver2") THEN ".2" ELSE ""),
   nodes |-> <<>>,
   declaredTypes |-> {},
   usedTypes |-> <<>>]

Reverse(seq) == [i \in 1..Len(seq) |-> seq[Len(seq) + 1 - i]]

VARIABLES
  pc,          \* position of start: "init", "xsd", "wsdl" (loop heads), "prefix"
               \* (inside proc.prefix), "suffix" (last loop), "done", "aborted"
  kind,        \* the loop that called prefix: "xsd" or "wsdl"
  phase,       \* inside prefix: "simple", "complex" or "element" forEach
  idx,         \* number of completed iterations of the current loop
  decls,       \* number of top-level declarations generated so far
  xsds,        \* result of the first glob
  wsdls,       \* result of the second glob
  processors,  \* the processors array
  links,       \* InterfaceProcessor.links, shared with every Processor
  builtInTypes,\* nodes of the primitives module
  log,         \* console output
  last,        \* the forEach callback that ran last: its kind and its argument
  files        \* the output directory: file name -> written nodes

vars == <<pc, kind, phase, idx, decls, xsds, wsdls, processors, links,
          builtInTypes, log, last, files>>

Init ==
  /\ pc = "init"
  /\ kind = "xsd"
  /\ phase = "simple"
  /\ idx = 0
  /\ decls = 0
  /\ xsds = <<>>
  /\ wsdls = <<>>
  /\ processors = <<>>
  /\ links = <<>>
  /\ builtInTypes = <<>>
  /\ log = <<>>
  /\ last = [op |-> "none", item |-> [name |-> Absent]]
  /\ files = <<>>

\* generateBuiltIns and the first glob
Start ==
  /\ pc = "init"
  /\ builtInTypes' = generateBuiltInNodes
  /\ links' = generateBuiltInLinks
  /\ \E found \in Lists(XsdPaths, MaxDocs) : xsds' = found
  /\ pc' = "xsd"
  /\ idx' = 0
  /\ UNCHANGED <<kind, phase, decls, wsdls, processors, log, last, files>>

\* one iteration of a document loop up to the parsed schema in prefix
BeginPrefix(k, paths) ==
  /\ pc = k
  /\ idx < Len(paths)
  /\ processors' = Append(processors, NewProcessor(paths[idx + 1]))
  /\ kind' = k
  /\ phase' = "simple"
  /\ pc' = "prefix"
  /\ UNCHANGED <<idx, decls, xsds, wsdls, links, builtInTypes, log, last, files>>

BeginXsd == BeginPrefix("xsd", xsds)

BeginWsdl == BeginPrefix("wsdl", wsdls)

\* a second glob that does not wait for the end of the xsd loop
GlobWsdlsEarly ==
  /\ pc = "xsd"
  /\ \E found \in Lists(WsdlPaths, MaxDocs - Len(xsds)) : wsdls' = found
  /\ pc' = "wsdl"
  /\ idx' = 0
  /\ UNCHANGED <<kind, phase, decls, xsds, processors, links, builtInTypes, log,
                 last, files>>

\* the second glob, after the xsd loop
GlobWsdls ==
  /\ pc = "xsd"
  /\ idx = Len(xsds)
  /\ \E found \in Lists(WsdlPaths, MaxDocs - Len(xsds)) : wsdls' = found
  /\ pc' = "wsdl"
  /\ idx' = 0
  /\ UNCHANGED <<kind, phase, decls, xsds, processors, links, builtInTypes, log,
                 last, files>>

\* the context of the Processor in prefix
Context(proc) ==
  [fileName |-> proc.fileName, nodes |-> proc.nodes,
   declaredTypes |-> proc.declaredTypes, usedTypes |-> proc.usedTypes,
   links |-> links, log |-> log, err |-> FALSE, calls |-> <<>>]

\* write a context back to processor i and to the shared state
Store(i, c) ==
  /\ processors' = [processors EXCEPT ![i] =
        [@ EXCEPT !.nodes = c.nodes, !.declaredTypes = c.declaredTypes,
                  !.usedTypes = c.usedTypes]]
  /\ links' = c.links
  /\ log' = c.log

\* a forEach whose callback swallows the exception
GenerateSwallowing(c, nextPhase, item) ==
  /\ decls < MaxDecls
  /\ decls' = decls + 1
  /\ Store(Len(processors), c)
  /\ phase' = nextPhase
  /\ last' = [op |-> nextPhase, item |-> item]
  /\ pc' = "prefix"
  /\ UNCHANGED <<kind, idx, xsds, wsdls, builtInTypes, files>>

\* one callback of a forEach of prefix; an exception ends the run
Generate(c, nextPhase, item) ==
  /\ decls < MaxDecls
  /\ decls' = decls + 1
  /\ Store(Len(processors), c)
  /\ phase' = nextPhase
  /\ last' = [op |-> nextPhase, item |-> item]
  /\ pc' = IF c.err THEN "aborted" ELSE "prefix"
  /\ UNCHANGED <<kind, idx, xsds, wsdls, builtInTypes, files>>

GenerateSimpleType(simpleType) ==
  /\ pc = "prefix"
  /\ phase = "simple"
  /\ Generate(generateSimpleTypeInterface(
                Context(processors[Len(processors)]), simpleType), "simple", simpleType)

GenerateComplexType(complexType) ==
  /\ pc = "prefix"
  /\ phase \in {"simple", "complex"}
  /\ Generate(generateComplexTypeInterface(
                Context(processors[Len(processors)]), complexType), "complex", complexType)

GenerateElement(element) ==
  /\ pc = "prefix"
  /\ Generate(generateElementType(
                Context(processors[Len(processors)]), element), "element", element)

\* a loop that resolves the imports of a module as soon as it is generated
EndPrefixResolving ==
  /\ pc = "prefix"
  /\ Store(Len(processors), suffix(Context(processors[Len(processors)]), links))
  /\ pc' = kind
  /\ idx' = idx + 1
  /\ UNCHANGED <<kind, phase, decls, xsds, wsdls, builtInTypes, last, files>>

\* prefix returns; the loop goes to its next iteration
EndPrefix ==
  /\ pc = "prefix"
  /\ pc' = kind
  /\ idx' = idx + 1
  /\ UNCHANGED <<kind, phase, decls, xsds, wsdls, processors, links,
                 builtInTypes, log, last, files>>

\* processors.reverse(), after the wsdl loop
EndGeneration ==
  /\ pc = "wsdl"
  /\ idx = Len(wsdls)
  /\ processors' = Reverse(processors)
  /\ pc' = "suffix"
  /\ idx' = 0
  /\ UNCHANGED <<kind, phase, decls, xsds, wsdls, links, builtInTypes, log,
                 last, files>>

\* one iteration of the last loop: proc.suffix and proc.writeInterface
SuffixAndWrite ==
  /\ pc = "suffix"
  /\ idx < Len(processors)
  /\ LET c == suffix(Context(processors[idx + 1]), links)
     IN /\ Store(idx + 1, c)
        /\ files' = ((processors[idx + 1].fileName \o ".ts") :> c.nodes) @@ files
  /\ idx' = idx + 1
  /\ UNCHANGED <<pc, kind, phase, decls, xsds, wsdls, builtInTypes, last>>

\* the primitives module is written last
WriteBasics ==
  /\ pc = "suffix"
  /\ idx = Len(processors)
  /\ files' = ((BASICS_FILENAME \o ".ts") :> builtInTypes) @@ files
  /\ log' = Append(log, LogLine("log", "Done!"))
  /\ pc' = "done"
  /\ UNCHANGED <<kind, phase, idx, decls, xsds, wsdls, processors, links,
                 builtInTypes, last>>

Next ==
  \/ Start
  \/ BeginXsd
  \/ GlobWsdls
  \/ BeginWsdl
  \/ \E simpleType \in SimpleTypes : GenerateSimpleType(simpleType)
  \/ \E complexType \in ComplexTypes : GenerateComplexType(complexType)
  \/ \E element \in Elements : GenerateElement(element)
  \/ EndPrefix
  \/ EndGeneration
  \/ SuffixAndWrite
  \/ WriteBasics

Spec == Init /\ [][Next]_vars

(***************************************************************************)
(* A second specification: the generation pass (prefix) of one schema      *)
(* document, over the combination space of the cardinality attributes and  *)
(* over the forms of wildcard sequences, simple types and nested anonymous *)
(* types.  It starts where Start and BeginXsd leave a run on the single    *)
(* schema ver10/onvif.xsd.                                                 *)
(***************************************************************************)
MaxUnitDecls == 1

Uses == {"required", "optional", Absent}

MinOccurs == {"1", "0", Absent}

MaxOccurs == {"unbounded", "2", Absent}

\* an xs:attribute or xs:element with every combination of use, minOccurs, maxOccurs
Cardinalities ==
  {Attribute("Item", Absent, "xs:string", use, minOccurs, maxOccurs, <<>>) :
     use \in Uses, minOccurs \in MinOccurs, maxOccurs \in MaxOccurs}

\* complex types with one member: an attribute of the type, an attribute of
\* its extension, an element of its sequence, an element of its extension's
\* sequence
MemberTypes ==
  {ComplexType("A", <<>>, <<a>>, <<>>) : a \in Cardinalities}
  \cup {ComplexType("B", <<Extension("tt:A", <<>>, <<a>>)>>, <<>>, <<>>) :
          a \in Cardinalities}
  \cup {ComplexType("A", <<>>, <<>>, <<Sequence(<<a>>, <<>>)>>) : a \in Cardinalities}
  \cup {ComplexType("B", <<Extension("tt:A", <<Sequence(<<a>>, <<>>)>>, <<>>)>>,
                    <<>>, <<>>) : a \in Cardinalities}

\* complex types whose sequence holds an xs:any
WildcardTypes ==
  {ComplexType(name, <<>>, attribute, <<Sequence(element, any)>>) :
     name \in {"A", "A-B", "Capabilities"},
     attribute \in {<<>>, <<Attr("token", "xs:string", "required")>>},
     element \in {<<>>, <<Elem("Next", "tt:A", "0", "unbounded"),
                          Elem("Uri", "xs:anyURI", Absent, Absent)>>},
     any \in {<<"##any">>, <<"##other">>, <<"##other", "##any">>}}
  \cup {ComplexType("B", <<Extension("tt:A", <<Sequence(<<>>, <<"##any">>)>>, <<>>)>>,
                    <<>>, <<>>)}

\* complex types with one sequence element that carries an anonymous type
NestedTypes ==
  {ComplexType("A", <<>>, <<>>, <<Sequence(<<NestedElem(name, complexType)>>, <<>>)>>) :
     name \in {"B", "A-B", "item", "Object", "Capabilities"},
     complexType \in {ComplexType(Absent, <<>>, <<>>, <<EmptySequence>>),
                      ComplexType(Absent, <<>>,
                                  <<Attr("token", "xs:string", "required")>>, <<>>),
                      ComplexType(Absent, <<Extension("tt:B", <<>>, <<>>)>>, <<>>, <<>>)}}

\* simple types: enumerations, restrictions, lists, both, neither
EnumeratedTypes ==
  {SimpleType(name, restriction, list) :
     name \in {"A", "A-B"},
     restriction \in {<<>>, <<Restriction("xs:string", <<>>)>>,
                      <<Restriction("xs:string",
                          <<Enumeration("Idle"), Enumeration("Active")>>)>>,
                      <<Restriction("xs:string",
                          <<Enumeration("Active"), Enumeration("Idle"),
                            Enumeration("Active")>>)>>},
     list \in {<<>>, <<"tt:B">>}}

\* schema type names: of every row kind of the table of dataTypes, outside
\* the table with and without a prefix, and none
XsdTypes ==
  {Absent, "xs:hexBinary", "xs:base64Binary", "xs:anyType", "xs:anySimpleType",
   "xs:QName", "xs:int", "xs:nonNegativeInteger", "xs:dateTime", "xs:token",
   "xs:string", "xs:boolean", "xs:anyURI", "xs:duration", "xs:positiveInteger",
   "xs:time", "tt:Object", "tt:Name", "Name", "tt:a:b"}

\* simple types that restrict a type without enumerating values
RestrictedTypes ==
  {SimpleType("A", <<Restriction(base, <<>>)>>, <<>>) : base \in XsdTypes}

\* complex types with one attribute of a type
PrimitiveMembers ==
  {ComplexType("A", <<>>, <<Attr("item", type, "required")>>, <<>>) :
     type \in XsdTypes}

\* simple types whose names have hyphens and periods, or are Object
NamedTypes ==
  {SimpleType(name, <<Restriction("xs:string", <<>>)>>, <<>>) :
     name \in {"Object", "a-b.c", "Ob-ject", "O.bject", "A.B-", "AB"}}

\* complex types with one attribute of a name
FieldTypes ==
  {ComplexType("A", <<>>, <<Attr(name, "xs:string", "required")>>, <<>>) :
     name \in {"Name", "name", "PTZ", "pTZ", "X", "x", "IPv4", "N1", "A-b",
               "Ab-c", "a.B", "A.b", "-a", "-A"}}

\* top-level elements: with an inline type, with a type attribute, with
\* both, with neither
TypedElements ==
  {Element(name, type, complexType) :
     name \in {"B", "A-B", "Capabilities"},
     type \in {Absent, "tt:A", "tt:B", "tt:A-B", "tt:", "tds:DeviceServiceCapabilities"},
     complexType \in {<<>>, <<ComplexType(Absent, <<>>,
                                <<Attr("token", "xs:string", "required")>>, <<>>)>>}}

\* the one document of the corpus: a schema, or the device management
\* service description
UnitInit ==
  /\ pc = "prefix"
  /\ phase = "simple"
  /\ idx = 0
  /\ decls = 0
  /\ \/ /\ kind = "xsd"
        /\ xsds = <<"ver10/onvif.xsd">>
        /\ wsdls = <<>>
        /\ processors = <<NewProcessor("ver10/onvif.xsd")>>
     \/ /\ kind = "wsdl"
        /\ xsds = <<>>
        /\ wsdls = <<"ver10/devicemgmt.wsdl">>
        /\ processors = <<NewProcessor("ver10/devicemgmt.wsdl")>>
  /\ links = generateBuiltInLinks
  /\ builtInTypes = generateBuiltInNodes
  /\ log = <<>>
  /\ last = [op |-> "none", item |-> [name |-> Absent]]
  /\ files = <<>>

\* one callback of the xs:simpleType forEach of prefix
UnitSimpleType(simpleType) ==
  /\ decls < MaxUnitDecls
  /\ GenerateSimpleType(simpleType)

\* one callback of the xs:complexType forEach of prefix
UnitComplexType(complexType) ==
  /\ decls < MaxUnitDecls
  /\ GenerateComplexType(complexType)

\* one callback of the xs:element forEach of prefix
UnitElement(element) ==
  /\ decls < MaxUnitDecls
  /\ GenerateElement(element)

UnitNext ==
  \/ \E simpleType \in EnumeratedTypes \cup RestrictedTypes \cup NamedTypes :
       UnitSimpleType(simpleType)
  \/ \E complexType \in MemberTypes \cup WildcardTypes \cup NestedTypes
                          \cup PrimitiveMembers \cup FieldTypes :
       UnitComplexType(complexType)
  \/ \E element \in TypedElements : UnitElement(element)

UnitSpec == UnitInit /\ [][UnitNext]_vars

(***************************************************************************)
(* Vocabulary of the properties.                                           *)
(***************************************************************************)
\* the Processor whose prefix is running
Cur == processors[Len(processors)]

Procs == 1..Len(processors)

\* suffix has run on processors[i]
Resolved(i) == pc \in {"suffix", "done"} /\ i <= idx

\* rank of processors[i] in the order of the generation pass
\* (the array is reversed before the last loop)
PassOrder(i) == IF pc \in {"suffix", "done"} THEN Len(processors) + 1 - i ELSE i

DeclarationKinds == {"alias", "union", "array", "interface"}

Declarations(nodes) == {i \in 1..Len(nodes) : nodes[i].kind \in DeclarationKinds}

Imports(nodes) == {i \in 1..Len(nodes) : nodes[i].kind = "import"}

\* the names of the import clauses of a node list
ImportedNames(nodes) == UNION {Range(nodes[i].values) : i \in Imports(nodes)}

\* the types the members of the interfaces of a node list refer to
PropertyTypes(nodes) ==
  UNION {{nodes[i].members[k].type : k \in 1..Len(nodes[i].members)} :
           i \in Declarations(nodes)}

BuiltInNames == {BuiltInTypes[i][1] : i \in 1..Len(BuiltInTypes)}

\* this step runs one callback of a forEach of prefix
Generated == pc = "prefix" /\ decls' = decls + 1

\* the context in which that callback, recorded in last', ends
LastResult ==
  CASE last'.op = "simple" ->
         generateSimpleTypeInterface(Context(Cur), last'.item)
    [] last'.op = "complex" ->
         generateComplexTypeInterface(Context(Cur), last'.item)
    [] last'.op = "element" ->
         generateElementType(Context(Cur), last'.item)

\* the complex type the callback recorded in last' generates, if any
LastComplexType ==
  IF last'.op = "complex" THEN <<last'.item>>
  ELSE IF last'.op = "element" /\ last'.item.complexType # <<>>
  THEN <<[last'.item.complexType[1] EXCEPT !.name = last'.item.name]>>
  ELSE <<>>

(***************************************************************************)
(* C1.  The Type Registry is write-once per key: once a type name is       *)
(* mapped to an owning module, no step of any module changes or removes    *)
(* that mapping.                                                           *)
(***************************************************************************)
C1_RegistryWriteOnce ==
  [][\A n \in DOMAIN links : n \in DOMAIN links' /\ links'[n] = links[n]]_vars

\* two modules have declared A and the one that ran first still owns it
C1_Witness ==
  \E i, j \in Procs :
    /\ PassOrder(i) < PassOrder(j)
    /\ processors[i].fileName # processors[j].fileName
    /\ "A" \in processors[i].declaredTypes \cap processors[j].declaredTypes
    /\ links["A"] = processors[i].fileName

(***************************************************************************)
(* C2.  As claimed: when two documents declare the same top-level name,    *)
(* the second document's declaration is dropped (a name the Registry maps  *)
(* to another module is never in a module's DeclaredTypes) and the second  *)
(* module's property references to the name are imported from the owner.   *)
(***************************************************************************)
C2_SecondDeclarationDropped ==
  \A i \in Procs : \A n \in DOMAIN links :
    links[n] # processors[i].fileName =>
      /\ n \notin processors[i].declaredTypes
      /\ (Resolved(i) /\ n \in PropertyTypes(processors[i].nodes)) =>
            \E k \in Imports(processors[i].nodes) :
              /\ processors[i].nodes[k].from = "./" \o links[n]
              /\ n \in Range(processors[i].nodes[k].values)

\* what one generation callback, ending in context r, does with the names it
\* hands to addNode while the Registry maps them to another module
KeepsOwnDeclarations(r) ==
  /\ \A n \in Range(r.calls) :
       (n \in DOMAIN links /\ links[n] # Cur.fileName) =>
         /\ links'[n] = links[n]
         /\ n \in processors'[Len(processors)].declaredTypes
  /\ Len(processors'[Len(processors)].nodes) - Len(Cur.nodes)
       = Cardinality(Range(r.calls) \ Cur.declaredTypes)

KeepsGenerated == Generated => KeepsOwnDeclarations(LastResult)

(***************************************************************************)
(* C2, amended.  The first module to declare a name stays its Registry     *)
(* owner; a later module's declaration of the same name is kept in that    *)
(* module (the name enters its DeclaredTypes and one node is appended per  *)
(* name it had not declared before), and that module never imports the     *)
(* name.                                                                   *)
(***************************************************************************)
C2_SecondDeclarationKept ==
  /\ [][KeepsGenerated]_vars
  /\ [](\A i \in Procs : \A n \in processors[i].declaredTypes :
          (n \in DOMAIN links /\ links[n] # processors[i].fileName) =>
             n \notin ImportedNames(processors[i].nodes))

\* the run is over; the second module declared A, refers to A in a property
\* and imports nothing named A
C2_Witness ==
  /\ pc = "done"
  /\ \E i, j \in Procs :
       /\ PassOrder(i) < PassOrder(j)
       /\ processors[i].fileName # processors[j].fileName
       /\ "A" \in processors[i].declaredTypes \cap processors[j].declaredTypes
       /\ links["A"] = processors[i].fileName
       /\ "A" \in PropertyTypes(processors[j].nodes)
       /\ "A" \notin ImportedNames(processors[j].nodes)

(***************************************************************************)
(* C3.  After the import-resolver pass a module imports no type it         *)
(* declares itself.                                                        *)
(***************************************************************************)
C3_NoSelfDeclaredImport ==
  \A i \in Procs :
    Resolved(i) => ImportedNames(processors[i].nodes) \cap processors[i].declaredTypes = {}

\* a resolved module that uses a type it declares and imports another one
C3_Witness ==
  \E i \in Procs :
    /\ Resolved(i)
    /\ Range(processors[i].usedTypes) \cap processors[i].declaredTypes # {}
    /\ ImportedNames(processors[i].nodes) # {}

\* a generation step keeps the declarations emitted before it
KeepsEmitted ==
  Generated => SubSeq(processors'[Len(processors)].nodes, 1, Len(Cur.nodes)) = Cur.nodes

(***************************************************************************)
(* C4.  Within one module no two emitted declarations have the same        *)
(* identifier: a second attempt to declare a declared name is dropped and  *)
(* the declarations emitted before are kept unchanged.                     *)
(***************************************************************************)
C4_UniqueIdentifiers ==
  /\ [](\A i \in Procs : \A a, b \in Declarations(processors[i].nodes) :
          a # b => processors[i].nodes[a].id # processors[i].nodes[b].id)
  /\ [][KeepsEmitted]_vars

\* the target primitives of the Primitive Type Mapper
TargetPrimitives == {"number", "string", "unknown", "any", "Date"}

\* the named types the declarations of a node list refer to: aliased types,
\* item types, inheritance bases and property types
NamedReferences(nodes) ==
  {t \in PropertyTypes(nodes)
         \cup {nodes[i].ref : i \in {k \in Declarations(nodes) :
                                       nodes[k].kind \in {"alias", "array"}}}
         \cup UNION {Range(nodes[i].heritage) : i \in Declarations(nodes)} :
     Capitalized(t) /\ t \notin TargetPrimitives}

(***************************************************************************)
(* C5.  UsedTypes of a module contains every named (capitalized,           *)
(* non-primitive) type that an emitted declaration of the module refers    *)
(* to: property types, inheritance bases, restriction bases and list item  *)
(* types.                                                                  *)
(***************************************************************************)
C5_UsedTypesCoverReferences ==
  \A i \in Procs :
    NamedReferences(processors[i].nodes) \subseteq Range(processors[i].usedTypes)

\* suffix has run on processors[i]: it always leaves its separator node
HasRunSuffix(i) == \E k \in 1..Len(processors[i].nodes) : processors[i].nodes[k].kind = "nl"

\* the generation pass of every schema and service-description document is over
AllGenerated ==
  /\ pc \in {"suffix", "done"}
  /\ Len(processors) = Len(xsds) + Len(wsdls)
  /\ {processors[i].filePath : i \in Procs} = Range(xsds) \cup Range(wsdls)

\* a step of the resolver pass leaves the Registry and the type sets alone
ResolverReadsFinalState ==
  pc \in {"suffix", "done"} =>
    /\ links' = links
    /\ pc' \in {"suffix", "done"}
    /\ \A i \in Procs :
         /\ processors'[i].declaredTypes = processors[i].declaredTypes
         /\ processors'[i].usedTypes = processors[i].usedTypes

(***************************************************************************)
(* C6.  Two-pass ordering: no module's imports are resolved and no module  *)
(* is written before the generation pass of every schema document and      *)
(* every service-description document has completed, and the Registry and  *)
(* the declared and used types no longer change once resolution has begun. *)
(***************************************************************************)
C6_TwoPassOrdering ==
  /\ []((files # <<>> \/ \E i \in Procs : HasRunSuffix(i)) => AllGenerated)
  /\ [][ResolverReadsFinalState]_vars

\* a module generated earlier imports a type of a module generated later
C6_Witness ==
  /\ pc = "done"
  /\ \E i, j \in Procs : \E k \in Imports(processors[i].nodes) :
       /\ PassOrder(i) < PassOrder(j)
       /\ processors[i].fileName # processors[j].fileName
       /\ processors[i].nodes[k].from = "./" \o processors[j].fileName
       /\ Range(processors[i].nodes[k].values) \cap processors[j].declaredTypes # {}

\* the names suffix has to import into processors[i]
ImportsNeeded(i) ==
  {n \in Range(processors[i].usedTypes) \ processors[i].declaredTypes : n \in DOMAIN links}

Unresolved(i) ==
  {n \in Range(processors[i].usedTypes) \ processors[i].declaredTypes : n \notin DOMAIN links}

SelfExtending(complexType) ==
  /\ complexType.complexContent # <<>>
  /\ LET base == complexType.complexContent[1].base
         n == Len(base) - Len(complexType.name)
         colons(first, end) == {m \in first..end : SubSeq(base, m, m) = ":"}
     IN \/ base = complexType.name /\ colons(1, Len(base)) = {}
        \/ /\ n >= 1
           /\ SubSeq(base, n + 1, Len(base)) = complexType.name
           /\ colons(1, n) = {n}

\* the step that generates a self-extending type emits nothing and goes on
SkipsSelfExtension ==
  (Generated /\ LastComplexType # <<>> /\ SelfExtending(LastComplexType[1])) =>
     /\ processors'[Len(processors)].nodes = Cur.nodes
     /\ pc' = "prefix"

(***************************************************************************)
(* C8.  A complex type whose extension base local name equals its own      *)
(* name yields no emitted declaration and raises no error, whatever else   *)
(* the type contains.                                                      *)
(***************************************************************************)
C8_SelfExtensionSkipped == [][SkipsSelfExtension]_vars

\* a self-extending type with attributes and an explicit sequence has just
\* been generated into a module that is still empty
C8_Witness ==
  /\ pc = "prefix"
  /\ last.op = "complex"
  /\ SelfExtending(last.item)
  /\ last.item.sequence # <<>>
  /\ Cur.nodes = <<>>

\* a complex type with an extension base other than itself and without an
\* explicit own sequence
ProperExtension(complexType) ==
  /\ complexType.complexContent # <<>>
  /\ ~SelfExtending(complexType)
  /\ complexType.sequence = <<>>

\* the members built from a sequence (or none) and from attributes alone
MembersFrom(sequence, attribute) ==
  ([k \in 1..Len(attribute) |-> propertyOf(attributeUse(attribute[k]))]
   \o (IF sequence = <<>> THEN <<>>
       ELSE [k \in 1..Len(sequence[1].element) |->
               LET e == sequence[1].element[k]
               IN propertyOf(IF e.complexType # <<>>
                             THEN [e EXCEPT !.type = "tt:" \o e.name] ELSE e)]))
  \o (IF sequence = <<>> THEN <<>> ELSE anyMembers(sequence[1]))

LastNode(nodes) == nodes[Len(nodes)]

\* the step that generates a proper extension emits it as claimed
EmitsExtension ==
  (Generated /\ LastComplexType # <<>> /\ ProperExtension(LastComplexType[1])) =>
   LET ct == LastComplexType[1]
       ext == ct.complexContent[1]
       nodes == processors'[Len(processors)].nodes
   IN /\ Len(nodes) > Len(Cur.nodes)
      /\ LastNode(nodes) = InterfaceDeclaration(cleanName(ct.name),
                             <<localName(ext.base)>>,
                             MembersFrom(ext.sequence, ext.attribute))
      /\ localName(ext.base) \in Range(processors'[Len(processors)].usedTypes)

(***************************************************************************)
(* C9.  As claimed: every complex type with an extension base other than   *)
(* itself (and no explicit own sequence) emits a declaration that inherits *)
(* from the base, with members built only from the extension's own         *)
(* sequence and attributes, and adds the base name to UsedTypes.           *)
(***************************************************************************)
C9_ExtensionEmitted == [][EmitsExtension]_vars

\* a nested anonymous type of the sequence aborts the run
RECURSIVE Aborts(_)
Aborts(complexType) ==
  LET sequence == IF complexType.complexContent # <<>>
                  THEN complexType.complexContent[1].sequence
                  ELSE complexType.sequence
  IN /\ ~SelfExtending(complexType)
     /\ \/ complexType.complexContent # <<>> /\ complexType.sequence # <<>>
        \/ /\ sequence # <<>>
           /\ \E k \in 1..Len(sequence[1].element) :
                /\ sequence[1].element[k].complexType # <<>>
                /\ Aborts([sequence[1].element[k].complexType[1]
                             EXCEPT !.name = sequence[1].element[k].name])

\* the step that generates a proper extension with a named base
EmitsExtensionUnlessDeclared ==
  (Generated /\ LastComplexType # <<>> /\ ProperExtension(LastComplexType[1])
    /\ localName(LastComplexType[1].complexContent[1].base) # "") =>
   LET ct == LastComplexType[1]
       ext == ct.complexContent[1]
       nodes == processors'[Len(processors)].nodes
       capabilities == /\ ct.name = "Capabilities"
                       /\ ext.sequence # <<>>
                       /\ ext.sequence[1].element = <<>>
   IN /\ localName(ext.base) \in Range(processors'[Len(processors)].usedTypes)
      /\ (ct.name \notin Cur.declaredTypes /\ ~capabilities /\ ~Aborts(ct)) =>
           /\ Len(nodes) > Len(Cur.nodes)
           /\ ct.name \in processors'[Len(processors)].declaredTypes
           /\ LastNode(nodes) = InterfaceDeclaration(cleanName(ct.name),
                  <<localName(ext.base)>>,
                  MembersFrom(ext.sequence,
                              IF ext.attribute # <<>> THEN ext.attribute
                                                      ELSE ct.attribute))

(***************************************************************************)
(* C9, amended.  Every complex type with an extension base whose local     *)
(* name is not empty and differs from the type's own name (and with no     *)
(* explicit own sequence) adds the base name to UsedTypes; and unless its  *)
(* name is already declared in the module, or it is named Capabilities     *)
(* and its extension has a sequence without elements, or a nested type     *)
(* aborts the run, it emits a declaration that inherits from the base and  *)
(* whose members are built only from the extension's own sequence and from *)
(* the extension's attributes (from the attributes declared on the type    *)
(* itself when the extension has none): no member of the base is listed.   *)
(***************************************************************************)
C9_ExtensionEmittedUnlessDeclared == [][EmitsExtensionUnlessDeclared]_vars

\* an extension of A with a sequence and attributes of its own has just been
\* emitted as the last declaration of the module
C9_Witness ==
  /\ pc = "prefix"
  /\ last.op = "complex"
  /\ ProperExtension(last.item)
  /\ last.item.complexContent[1].sequence # <<>>
  /\ last.item.complexContent[1].attribute # <<>>
  /\ LastNode(Cur.nodes).id = last.item.name
  /\ LastNode(Cur.nodes).heritage = <<"A">>
  /\ Len(LastNode(Cur.nodes).members) = 2
  /\ "A" \in Range(Cur.usedTypes)

\* some complex type of the tree has both an extension and an explicit
\* sequence of its own
RECURSIVE HasExtensionAndSequence(_)
HasExtensionAndSequence(complexType) ==
  LET nestedIn(sequence) ==
        /\ sequence # <<>>
        /\ \E k \in 1..Len(sequence[1].element) :
             /\ sequence[1].element[k].complexType # <<>>
             /\ HasExtensionAndSequence(sequence[1].element[k].complexType[1])
  IN \/ complexType.complexContent # <<>> /\ complexType.sequence # <<>>
     \/ nestedIn(complexType.sequence)
     \/ complexType.complexContent # <<>>
          /\ nestedIn(complexType.complexContent[1].sequence)

\* every step is taken by a run that has not aborted
NotAborted == pc # "aborted"

AbortsOnExtensionWithSequence ==
  (Generated /\ LastComplexType # <<>> /\ HasExtensionAndSequence(LastComplexType[1]))
    => pc' = "aborted"

AbortsWhenReached ==
  (Generated /\ LastComplexType # <<>>) =>
    (pc' = "aborted" <=> Aborts(LastComplexType[1]))

\* after an abort nothing is generated, resolved or written
AbortIsFinal ==
  /\ [][NotAborted]_vars
  /\ [](pc = "aborted" => files = <<>> /\ \A i \in Procs : ~HasRunSuffix(i))

(***************************************************************************)
(* C10.  As claimed: if any complex type of any document has both a        *)
(* complexContent extension and an explicit own sequence, the run aborts   *)
(* in the generation pass: nothing is generated after it, no import is     *)
(* resolved and no module is handed to the renderer.                       *)
(***************************************************************************)
C10_ExtensionWithSequenceAborts ==
  /\ [][AbortsOnExtensionWithSequence]_vars
  /\ AbortIsFinal

(***************************************************************************)
(* C10, amended.  If generation reaches a complex type that has both a     *)
(* complexContent extension whose base local name differs from the type's  *)
(* own name and an explicit own sequence, the run aborts in the generation *)
(* pass: nothing is generated after it, no import is resolved and no       *)
(* module is handed to the renderer.  A type that extends itself is        *)
(* skipped with everything nested in it, even with an explicit sequence.   *)
(***************************************************************************)
C10_ReachedExtensionWithSequenceAborts ==
  /\ [][AbortsWhenReached]_vars
  /\ AbortIsFinal

\* the run has aborted in a nested type, after the promotion of its sibling
C10_Witness ==
  /\ pc = "aborted"
  /\ last.op = "complex"
  /\ last.item.complexContent = <<>>
  /\ Aborts(last.item)
  /\ "B" \in Cur.declaredTypes
  /\ files = <<>>

(***************************************************************************)
(* Vocabulary of the properties of the second specification.               *)
(***************************************************************************)
\* the one attribute or sequence element of a type of MemberTypes
SourceMember(complexType) ==
  LET hasContent == complexType.complexContent # <<>>
      attribute == IF hasContent THEN complexType.complexContent[1].attribute
                                 ELSE complexType.attribute
      sequence == IF hasContent THEN complexType.complexContent[1].sequence
                                ELSE complexType.sequence
  IN IF attribute # <<>>
     THEN [isAttribute |-> TRUE, meta |-> attribute[1]]
     ELSE [isAttribute |-> FALSE, meta |-> sequence[1].element[1]]

\* this step generates a type of MemberTypes whose name the module has not
\* declared yet
GeneratesMember ==
  /\ Generated
  /\ last'.op = "complex"
  /\ last'.item \in MemberTypes
  /\ last'.item.name \notin Cur.declaredTypes

\* this step appends one interface with one member
EmitsOneMember ==
  /\ Len(processors'[Len(processors)].nodes) = Len(Cur.nodes) + 1
  /\ LastNode(processors'[Len(processors)].nodes).kind = "interface"
  /\ Len(LastNode(processors'[Len(processors)].nodes).members) = 1

EmittedMember == LastNode(processors'[Len(processors)].nodes).members[1]

\* the precedence as the table of its outcomes
RequiredByPrecedence(meta) ==
  \/ meta.use = "required"
  \/ /\ meta.use = Absent
     /\ \/ meta.minOccurs = "1"
        \/ meta.minOccurs = Absent /\ meta.maxOccurs = Absent

PrecedenceForAll ==
  GeneratesMember =>
    /\ EmitsOneMember
    /\ EmittedMember.optional = ~RequiredByPrecedence(SourceMember(last'.item).meta)

(***************************************************************************)
(* C11.  As claimed: for every attribute or sequence element and every     *)
(* combination of use, minOccurs and maxOccurs, the emitted property is    *)
(* required exactly when use is not "optional" and (use is "required", or  *)
(* minOccurs is "1", or both minOccurs and maxOccurs are absent).          *)
(***************************************************************************)
C11_OptionalityPrecedence == [][PrecedenceForAll]_vars

PrecedenceForElements ==
  GeneratesMember =>
    /\ EmitsOneMember
    /\ LET m == SourceMember(last'.item)
       IN EmittedMember.optional =
            IF m.isAttribute THEN m.meta.use # "required"
                             ELSE ~RequiredByPrecedence(m.meta)

(***************************************************************************)
(* C11, amended.  For every sequence element and every combination of use, *)
(* minOccurs and maxOccurs (absent or empty counting as absent), the       *)
(* emitted property is required exactly when use is not "optional" and     *)
(* (use is "required", or minOccurs is "1", or both minOccurs and          *)
(* maxOccurs are absent); for every attribute an absent use counts as      *)
(* "optional", so the property is required exactly when use is "required". *)
(***************************************************************************)
C11_ElementOptionalityPrecedence == [][PrecedenceForElements]_vars

\* an element without use, with minOccurs 1 and maxOccurs unbounded, has
\* been emitted as a required property
C11_Witness ==
  /\ last.op = "complex"
  /\ last.item \in MemberTypes
  /\ ~SourceMember(last.item).isAttribute
  /\ SourceMember(last.item).meta.use = Absent
  /\ SourceMember(last.item).meta.minOccurs = "1"
  /\ SourceMember(last.item).meta.maxOccurs = "unbounded"
  /\ Len(Cur.nodes) = 1
  /\ Len(LastNode(Cur.nodes).members) = 1
  /\ ~LastNode(Cur.nodes).members[1].optional

AttributesOptionalUnlessRequired ==
  (GeneratesMember /\ SourceMember(last'.item).isAttribute) =>
    /\ EmitsOneMember
    /\ EmittedMember.optional = (SourceMember(last'.item).meta.use # "required")

(***************************************************************************)
(* C12.  Every attribute of a complex type, declared directly or inside    *)
(* its extension, becomes a property that is required exactly when its use *)
(* is "required" and optional in every other case, whatever its minOccurs  *)
(* and maxOccurs.                                                          *)
(***************************************************************************)
C12_AttributesOptionalUnlessRequired == [][AttributesOptionalUnlessRequired]_vars

\* an attribute of an extension, without use and with minOccurs 1, has been
\* emitted as an optional property
C12_Witness ==
  /\ last.op = "complex"
  /\ last.item \in MemberTypes
  /\ last.item.complexContent # <<>>
  /\ SourceMember(last.item).isAttribute
  /\ SourceMember(last.item).meta.use = Absent
  /\ SourceMember(last.item).meta.minOccurs = "1"
  /\ Len(Cur.nodes) = 1
  /\ Len(LastNode(Cur.nodes).members) = 1
  /\ LastNode(Cur.nodes).members[1].optional

ArrayWhenUnbounded ==
  GeneratesMember =>
    /\ EmitsOneMember
    /\ EmittedMember.array = (SourceMember(last'.item).meta.maxOccurs = "unbounded")
    /\ EmittedMember.type = "string"

(***************************************************************************)
(* C13.  A property's type is an array type exactly when its maxOccurs is  *)
(* "unbounded", for every value of use and minOccurs; any other or absent  *)
(* maxOccurs gives a non-array type.                                       *)
(***************************************************************************)
C13_ArrayWhenUnbounded == [][ArrayWhenUnbounded]_vars

\* an optional property with maxOccurs unbounded has been emitted as an array
C13_Witness ==
  /\ last.op = "complex"
  /\ last.item \in MemberTypes
  /\ SourceMember(last.item).meta.use = "optional"
  /\ SourceMember(last.item).meta.minOccurs = "0"
  /\ SourceMember(last.item).meta.maxOccurs = "unbounded"
  /\ Len(Cur.nodes) = 1
  /\ Len(LastNode(Cur.nodes).members) = 1
  /\ LastNode(Cur.nodes).members[1].optional
  /\ LastNode(Cur.nodes).members[1].array

\* the sequence the members are built from: the one of the extension, if any
EffectiveSequence(complexType) ==
  IF complexType.complexContent # <<>> THEN complexType.complexContent[1].sequence
                                       ELSE complexType.sequence

EffectiveAttributes(complexType) ==
  IF complexType.complexContent # <<>> /\ complexType.complexContent[1].attribute # <<>>
  THEN complexType.complexContent[1].attribute
  ELSE complexType.attribute

\* the first wildcard of the sequence is an unrestricted-namespace wildcard
Unrestricted(sequence) == sequence.any # <<>> /\ sequence.any[1] = "##any"

\* this step generates a type of WildcardTypes whose name the module has not
\* declared yet
GeneratesWildcard ==
  /\ Generated
  /\ last'.op = "complex"
  /\ last'.item \in WildcardTypes
  /\ last'.item.name \notin Cur.declaredTypes

\* the members of the declaration that the step appends: the attributes, the
\* elements, then one index signature exactly when the wildcard is unrestricted
EmitsIndexSignatureLast ==
  LET ct == last'.item
      sequence == EffectiveSequence(ct)[1]
      n == Len(EffectiveAttributes(ct)) + Len(sequence.element)
      nodes == processors'[Len(processors)].nodes
      members == LastNode(nodes).members
  IN /\ Len(nodes) = Len(Cur.nodes) + 1
     /\ LastNode(nodes).kind = "interface"
     /\ LastNode(nodes).id = cleanName(ct.name)
     /\ Len(members) = n + (IF Unrestricted(sequence) THEN 1 ELSE 0)
     /\ \A k \in 1..Len(members) :
          (members[k] = IndexSignature) <=> (Unrestricted(sequence) /\ k = n + 1)

WildcardForAll == GeneratesWildcard => EmitsIndexSignatureLast

(***************************************************************************)
(* C14.  As claimed: every complex type, whatever its name, whose only     *)
(* content is a sequence holding an unrestricted-namespace wildcard yields *)
(* a declaration whose member list is exactly one index signature; and any *)
(* sequence with such a wildcard contributes exactly one index-signature   *)
(* member, placed after the sequence's element members.                    *)
(***************************************************************************)
C14_WildcardIndexSignature == [][WildcardForAll]_vars

\* the special case of a type named Capabilities with an element-less sequence
CapabilitiesCase(complexType) ==
  /\ complexType.name = "Capabilities"
  /\ EffectiveSequence(complexType)[1].element = <<>>

WildcardUnlessCapabilities ==
  GeneratesWildcard =>
    IF CapabilitiesCase(last'.item)
    THEN processors'[Len(processors)].nodes = Cur.nodes /\ pc' = "prefix"
    ELSE EmitsIndexSignatureLast

(***************************************************************************)
(* C14, amended.  Every complex type whose name the module has not         *)
(* declared and whose sequence has as its first wildcard one of namespace  *)
(* "##any" yields a declaration whose members are the attribute members,   *)
(* the sequence's element members and then exactly one index-signature     *)
(* member (so exactly that one member when the wildcard is the type's only *)
(* content), except that a type named Capabilities whose sequence has no   *)
(* elements yields no declaration at all; a first wildcard of another      *)
(* namespace contributes no member.                                        *)
(***************************************************************************)
C14_WildcardIndexSignatureUnlessCapabilities == [][WildcardUnlessCapabilities]_vars

\* a type with a hyphenated name whose only content is an unrestricted
\* wildcard has been emitted with the index signature as its only member
C14_Witness ==
  /\ last.op = "complex"
  /\ last.item \in WildcardTypes
  /\ last.item.name = "A-B"
  /\ last.item.attribute = <<>>
  /\ last.item.sequence[1].element = <<>>
  /\ Unrestricted(last.item.sequence[1])
  /\ Len(Cur.nodes) = 1
  /\ LastNode(Cur.nodes).id = "AB"
  /\ LastNode(Cur.nodes).members = <<IndexSignature>>

\* this step generates a simple type whose name the module has not declared
GeneratesSimpleType ==
  /\ Generated
  /\ last'.op = "simple"
  /\ cleanName(last'.item.name) \notin Cur.declaredTypes

\* what the step appends for each form of simple type
EmitsSimpleTypeForm ==
  LET simpleType == last'.item
      nodes == processors'[Len(processors)].nodes
      values == simpleType.restriction[1].enumeration
  IN IF simpleType.restriction # <<>> /\ values # <<>>
     THEN /\ Len(nodes) = Len(Cur.nodes) + 1
          /\ LastNode(nodes).kind = "union"
          /\ LastNode(nodes).id = cleanName(simpleType.name)
          /\ Len(LastNode(nodes).values) = Len(values)
          /\ \A k \in 1..Len(values) : LastNode(nodes).values[k] = values[k].value
     ELSE IF simpleType.restriction # <<>>
     THEN /\ Len(nodes) = Len(Cur.nodes) + 1
          /\ LastNode(nodes).kind = "alias"
          /\ LastNode(nodes).id = cleanName(simpleType.name)
     ELSE IF simpleType.list # <<>>
     THEN /\ Len(nodes) = Len(Cur.nodes) + 1
          /\ LastNode(nodes).kind = "array"
     ELSE nodes = Cur.nodes

EnumerationInOrder == GeneratesSimpleType => EmitsSimpleTypeForm

(***************************************************************************)
(* C15.  A simple type with an enumeration restriction produces (unless    *)
(* the module has already declared its name, in which case it is dropped   *)
(* as any second declaration is) one named alias whose literal union is    *)
(* exactly the sequence of enumeration values in document order: same      *)
(* values, same order, none added or dropped.  When a simple type has both *)
(* a restriction and a list, the restriction form is the one emitted; a    *)
(* simple type with neither emits nothing.                                 *)
(***************************************************************************)
C15_EnumerationInOrder == [][EnumerationInOrder]_vars

\* a simple type with a repeated enumeration value and a list has been
\* emitted as the union of its three values in document order
C15_Witness ==
  /\ last.op = "simple"
  /\ last.item.list # <<>>
  /\ last.item.restriction # <<>>
  /\ Len(last.item.restriction[1].enumeration) = 3
  /\ Len(Cur.nodes) = 1
  /\ LastNode(Cur.nodes).kind = "union"
  /\ LastNode(Cur.nodes).values = <<"Active", "Idle", "Active">>

(***************************************************************************)
(* C16.  A completed run has written exactly one module file per input     *)
(* document plus the primitives module file: distinct input documents      *)
(* never map to the same output module name, nor to the name of the        *)
(* primitives module.                                                      *)
(***************************************************************************)
C16_OneFilePerDocument ==
  pc = "done" =>
    /\ \A i, j \in Procs :
         processors[i].filePath # processors[j].filePath =>
           processors[i].fileName # processors[j].fileName
    /\ \A i \in Procs : processors[i].fileName # BASICS_FILENAME
    /\ Cardinality(DOMAIN files) = Len(xsds) + Len(wsdls) + 1

\* the names a generation callback, ending in context r, hands to addNode
\* while the Registry maps them to another module
ConflictNames(r) ==
  {n \in Range(r.calls) : n \in DOMAIN links /\ links[n] # Cur.fileName}

\* the run aborts in this step only for a structural contract violation
AbortsOnlyOnViolation ==
  pc' = "aborted" => (LastComplexType # <<>> /\ Aborts(LastComplexType[1]))

ConflictLogged ==
  (Generated /\ ConflictNames(LastResult) # {}) =>
    /\ \A n \in ConflictNames(LastResult) :
         \E k \in (Len(log) + 1)..Len(log') : Includes(log'[k].msg, n)
    /\ AbortsOnlyOnViolation

(***************************************************************************)
(* C17.  As claimed: whenever a module attempts a top-level declaration    *)
(* for a name that the Registry already maps to a different module, a      *)
(* conflict warning is logged for that attempt and generation continues    *)
(* without aborting.                                                       *)
(***************************************************************************)
C17_ConflictLogged == [][ConflictLogged]_vars

ConflictUnlogged ==
  (Generated /\ ConflictNames(LastResult) # {}) =>
    LET r == LastResult
    IN /\ Len(log') - Len(log)
            = Len(r.calls) - Cardinality(Range(r.calls) \ Cur.declaredTypes)
       /\ \A k \in (Len(log) + 1)..Len(log') :
            \E n \in processors'[Len(processors)].declaredTypes :
              log'[k] = LogLine("log", n \o " in " \o links'[n] \o " already declared")
       /\ \A n \in ConflictNames(r) :
            /\ links'[n] = links[n]
            /\ n \in processors'[Len(processors)].declaredTypes
       /\ AbortsOnlyOnViolation

(***************************************************************************)
(* C17, amended.  Whenever a module attempts a top-level declaration for a *)
(* name that the Registry already maps to a different module, nothing is   *)
(* logged for the conflict: the only message of a declaration attempt is   *)
(* the one for a name that the module itself has already declared.  The    *)
(* Registry keeps its owner, the name is declared in the module, and       *)
(* generation continues without aborting.                                  *)
(***************************************************************************)
C17_ConflictUnlogged == [][ConflictUnlogged]_vars

\* the second module has declared A, which the first module owns, and the
\* console is still empty
C17_Witness ==
  /\ pc = "prefix"
  /\ Len(processors) = 2
  /\ "A" \in Cur.declaredTypes
  /\ "A" \in processors[1].declaredTypes
  /\ links["A"] = processors[1].fileName
  /\ links["A"] # Cur.fileName
  /\ log = <<>>

\* the documents in the order of the two loops: schemas, then service
\* descriptions, each kind in discovery order
Documents == xsds \o wsdls

\* the passes begun so far are those of the first documents, in order
PassesInOrder ==
  /\ Len(processors) <= Len(Documents)
  /\ \A i \in Procs : processors[i].filePath = Documents[PassOrder(i)]
  /\ pc = "prefix" => /\ processors # <<>>
                      /\ kind = IF Len(processors) <= Len(xsds) THEN "xsd" ELSE "wsdl"

\* a pass begins only between passes; a step of a pass touches the module
\* of the document begun last, and the Registry only in the name of it
OnePassAtATime ==
  /\ Len(processors') # Len(processors) =>
       /\ pc \in {"xsd", "wsdl"}
       /\ pc' = "prefix"
       /\ Len(processors') = Len(processors) + 1
       /\ \A i \in Procs : processors'[i] = processors[i]
  /\ pc' \notin {"suffix", "done"} =>
       \A i \in Procs : i < Len(processors) => processors'[i] = processors[i]
  /\ (pc # "init" /\ links' # links) =>
       /\ pc = "prefix"
       /\ \A n \in DOMAIN links' :
            IF n \in DOMAIN links THEN links'[n] = links[n]
                                  ELSE links'[n] = Cur.fileName

(***************************************************************************)
(* C18.  Document processing is strictly sequential and kind-ordered: at   *)
(* most one document is in its generation pass at any time, a document's   *)
(* pass starts only after the previous document's pass has finished, and   *)
(* every schema document's pass, hence all its Registry writes, completes  *)
(* before any service-description document's pass begins.                  *)
(***************************************************************************)
C18_SequentialKindOrdered ==
  /\ []PassesInOrder
  /\ [][OnePassAtATime]_vars

\* a service description is in its pass after the pass of a schema that
\* owns a name, and has declared a name itself
C18_Witness ==
  /\ pc = "prefix"
  /\ kind = "wsdl"
  /\ Len(processors) = 2
  /\ processors[1].filePath \in Range(xsds)
  /\ Cur.filePath \in Range(wsdls)
  /\ \E n \in processors[1].declaredTypes : links[n] = processors[1].fileName
  /\ \E n \in Cur.declaredTypes : links[n] = Cur.fileName

\* the names the primitives module declares
PrimitiveNames == {builtInTypes[i].id : i \in 1..Len(builtInTypes)}

\* the Registry maps every name of the primitives module to that module
PrimitivesOwned ==
  /\ PrimitiveNames = {"AnyURI", "FilterType", "NCName", "Duration"}
  /\ \A n \in PrimitiveNames : n \in DOMAIN links /\ links[n] = BASICS_FILENAME

(***************************************************************************)
(* C19.  The Registry is seeded with every name declared by the primitives *)
(* module, owned by that module, before the first document is ingested;    *)
(* and from then on to the end of the run each of those names is owned by  *)
(* the primitives module, even when a document declares a type of the same *)
(* name.                                                                   *)
(***************************************************************************)
C19_PrimitivesSeededAndKept ==
  /\ (pc # "init" \/ processors # <<>>) => PrimitivesOwned
  /\ pc = "done" => files[BASICS_FILENAME \o ".ts"] = builtInTypes

\* the run is over and a document has declared Duration, a name of the
\* primitives module
C19_Witness ==
  /\ pc = "done"
  /\ \E i \in Procs :
       /\ "Duration" \in processors[i].declaredTypes
       /\ \E k \in Declarations(processors[i].nodes) :
            processors[i].nodes[k].id = "Duration"
  /\ links["Duration"] = BASICS_FILENAME

\* this step generates, into a module that has declared nothing, a type of
\* NestedTypes: a type with one element that carries an anonymous type
GeneratesNested ==
  /\ Generated
  /\ last'.op = "complex"
  /\ last'.item \in NestedTypes
  /\ Cur.declaredTypes = {}

\* the promoted declaration precedes the enclosing one, whose property
\* refers to it by a name that is in UsedTypes
PromotedAndReferenced ==
  LET nodes == processors'[Len(processors)].nodes
      enclosing == LastNode(nodes)
      reference == enclosing.members[1].type
  IN /\ Len(nodes) >= 2
     /\ enclosing.kind = "interface"
     /\ enclosing.id = cleanName(last'.item.name)
     /\ Len(enclosing.members) = 1
     /\ \E k \in 1..(Len(nodes) - 1) :
          nodes[k].kind = "interface" /\ nodes[k].id = reference
     /\ reference \in Range(processors'[Len(processors)].usedTypes)

NestedPromoted == GeneratesNested => PromotedAndReferenced

(***************************************************************************)
(* C20.  For every sequence element that carries a nested anonymous        *)
(* complex type, after generation the enclosing property's type reference  *)
(* names a declaration that the same module's declaration list contains    *)
(* (the promoted type, named after the enclosing element), that promoted   *)
(* declaration precedes the enclosing type's declaration, and the          *)
(* referenced name is in UsedTypes.                                        *)
(***************************************************************************)
C20_NestedPromoted == [][NestedPromoted]_vars

\* this step generates a top-level element of TypedElements whose cleaned
\* and raw names the module has not declared
GeneratesElement ==
  /\ Generated
  /\ last'.op = "element"
  /\ last'.item \in TypedElements
  /\ {last'.item.name, cleanName(last'.item.name)} \cap Cur.declaredTypes = {}

\* the step leaves the module, the Registry and the console as they are
NoStateChange ==
  /\ processors' = processors
  /\ links' = links
  /\ log' = log
  /\ pc' = "prefix"

\* the step appends one declaration and declares it under the key
EmitsDeclaration(key, node) ==
  /\ processors'[Len(processors)].nodes = Append(Cur.nodes, node)
  /\ processors'[Len(processors)].declaredTypes = Cur.declaredTypes \cup {key}
  /\ pc' = "prefix"

\* the cleaned local name of the type attribute of an element
BaseOf(element) == localName(cleanName(element.type))

\* lifecycle (i): the inline type is generated under the name of the element
\* lifecycle (iii): nothing happens
InlineOrNothing ==
  LET element == last'.item
  IN IF element.complexType # <<>>
     THEN /\ EmitsDeclaration(element.name,
               InterfaceDeclaration(cleanName(element.name), <<>>,
                 MembersFrom(<<>>, element.complexType[1].attribute)))
          /\ processors'[Len(processors)].usedTypes = Cur.usedTypes
     ELSE element.type = Absent => NoStateChange

ElementLifecycles ==
  GeneratesElement =>
    /\ InlineOrNothing
    /\ (/\ last'.item.complexType = <<>>
        /\ last'.item.type # Absent
        /\ BaseOf(last'.item) # "") =>
         /\ EmitsDeclaration(cleanName(last'.item.name),
              InterfaceDeclaration(cleanName(last'.item.name),
                                   <<BaseOf(last'.item)>>, <<>>))
         /\ BaseOf(last'.item) \in Range(processors'[Len(processors)].usedTypes)

(***************************************************************************)
(* C21.  As claimed: an element wrapping an inline anonymous complex type  *)
(* yields a complex-type declaration named after the element; every        *)
(* element with no inline type but a type attribute yields an empty        *)
(* declaration named after the element that inherits from the referenced   *)
(* type's local name and marks that type as used; an element with neither  *)
(* yields no declaration and changes no state.                             *)
(***************************************************************************)
C21_ElementLifecycles == [][ElementLifecycles]_vars

\* the element is skipped: it would inherit from itself, or it is the
\* Capabilities element of the device management service
SkippedElement(element) ==
  \/ cleanName(element.name) = BaseOf(element)
  \/ /\ Cur.fileName = "devicemgmt"
     /\ element.name = "Capabilities"
     /\ element.type = "tds:DeviceServiceCapabilities"

ElementLifecyclesUnlessSkipped ==
  GeneratesElement =>
    /\ InlineOrNothing
    /\ (last'.item.complexType = <<>> /\ last'.item.type # Absent) =>
         IF SkippedElement(last'.item) THEN NoStateChange
         ELSE /\ EmitsDeclaration(cleanName(last'.item.name),
                   InterfaceDeclaration(cleanName(last'.item.name),
                     IF BaseOf(last'.item) = "" THEN <<>> ELSE <<BaseOf(last'.item)>>,
                     <<>>))
              /\ processors'[Len(processors)].usedTypes =
                   IF BaseOf(last'.item) = "" THEN Cur.usedTypes
                   ELSE SetAdd(Cur.usedTypes, BaseOf(last'.item))

(***************************************************************************)
(* C21, amended.  An element wrapping an inline anonymous complex type     *)
(* yields the declaration of that complex type under the name of the       *)
(* element, whatever its type attribute.  An element with no inline type   *)
(* but a type attribute yields an empty declaration named after the        *)
(* element (cleaned) that inherits from the cleaned local name of the type *)
(* and marks it as used (no heritage and nothing marked when the local     *)
(* name is empty), except that nothing at all happens when the element's   *)
(* cleaned name equals that local name or when it is the element           *)
(* Capabilities of type tds:DeviceServiceCapabilities in module            *)
(* devicemgmt.  An element with neither yields no declaration and changes  *)
(* no state.  (Names the module has not declared before.)                  *)
(***************************************************************************)
C21_ElementLifecyclesUnlessSkipped == [][ElementLifecyclesUnlessSkipped]_vars

\* an element with a hyphenated name and a type attribute has been emitted
\* as an empty declaration that inherits from the type
C21_Witness ==
  /\ last.op = "element"
  /\ last.item \in TypedElements
  /\ last.item.name = "A-B"
  /\ last.item.type = "tt:A"
  /\ last.item.complexType = <<>>
  /\ Cur.nodes = <<InterfaceDeclaration("AB", <<"A">>, <<>>)>>
  /\ Cur.declaredTypes = {"AB"}
  /\ Cur.usedTypes = <<"A">>

\* this step generates a restriction of RestrictedTypes under a name the
\* module has not declared
GeneratesRestriction ==
  /\ Generated
  /\ last'.op = "simple"
  /\ last'.item \in RestrictedTypes
  /\ cleanName(last'.item.name) \notin Cur.declaredTypes

\* the step emits the alias of the restriction with this target
EmitsAliasOf(ref) ==
  processors'[Len(processors)].nodes =
    Append(Cur.nodes, TypeAlias(cleanName(last'.item.name), ref))

\* the names with a row in the table of the mapper
TableTypes ==
  NumberTypes \cup UnknownTypes \cup
    {"xs:dateTime", "xs:token", "xs:anyURI", "xs:anyType", "xs:duration",
     "xs:positiveInteger", "xs:time"}

\* the text after the first colon; the whole name when it has none
AfterPrefix(qualified) ==
  IF IndexOf(qualified, ":") = -1 THEN qualified
  ELSE SubSeq(qualified, IndexOf(qualified, ":") + 2, Len(qualified))

OpaqueKinds ==
  {"xs:hexBinary", "xs:base64Binary", "xs:anyType", "xs:anySimpleType", "xs:QName"}

MapsOpaqueAndDefault(opaque) ==
  GeneratesRestriction =>
    LET base == last'.item.restriction[1].base
    IN /\ base \in opaque \cup {Absent} => EmitsAliasOf("unknown")
       /\ base \notin TableTypes \cup {Absent} => EmitsAliasOf(AfterPrefix(base))

(***************************************************************************)
(* C22.  As claimed: each of hexBinary, base64Binary, anyType,             *)
(* anySimpleType and QName maps to the same target as an absent type name, *)
(* the universal unknown type; a name outside the table maps to the text   *)
(* after its namespace prefix, unchanged when it has no prefix.            *)
(***************************************************************************)
C22_OpaqueKindsUnknown == [][MapsOpaqueAndDefault(OpaqueKinds)]_vars

MapsOpaqueExceptAnyType ==
  /\ MapsOpaqueAndDefault(OpaqueKinds \ {"xs:anyType"})
  /\ (GeneratesRestriction /\ last'.item.restriction[1].base = "xs:anyType")
       => EmitsAliasOf("any")

(***************************************************************************)
(* C22, amended.  hexBinary, base64Binary, anySimpleType and QName map to  *)
(* the same target as an absent type name, the universal unknown type;     *)
(* anyType maps to the universal any type; a name outside the table maps   *)
(* to the text after its first colon, unchanged when it has no colon.      *)
(***************************************************************************)
C22_OpaqueKindsUnknownAnyTypeAny == [][MapsOpaqueExceptAnyType]_vars

\* a restriction of xs:anyType has been emitted as an alias of any
C22_Witness ==
  /\ last.op = "simple"
  /\ last.item \in RestrictedTypes
  /\ last.item.restriction[1].base = "xs:anyType"
  /\ Cur.nodes = <<TypeAlias("A", "any")>>

\* this step generates a simple type of NamedTypes under a name the module
\* has not declared
GeneratesNamedType ==
  /\ Generated
  /\ last'.op = "simple"
  /\ last'.item \in NamedTypes
  /\ cleanName(last'.item.name) \notin Cur.declaredTypes

\* the identifier of the declaration the step appends
EmittedIdentifier == LastNode(processors'[Len(processors)].nodes).id

CleanNameIdempotent ==
  GeneratesNamedType =>
    /\ Len(processors'[Len(processors)].nodes) = Len(Cur.nodes) + 1
    /\ cleanName(EmittedIdentifier) = EmittedIdentifier
    /\ ~Includes(EmittedIdentifier, "-")
    /\ ~Includes(EmittedIdentifier, ".")
    /\ last'.item.name = "Object" => EmittedIdentifier = "OnvifObject"
    /\ last'.item.name = "a-b.c" => EmittedIdentifier = "abc"

(***************************************************************************)
(* C23.  cleanName is idempotent: the identifier cleanName gives a         *)
(* declaration is left as it is by a second cleanName; it has no hyphen    *)
(* and no period; of the name Object it is the non-colliding alias         *)
(* OnvifObject, of a-b.c it is abc.                                        *)
(***************************************************************************)
C23_CleanNameIdempotent == [][CleanNameIdempotent]_vars

\* this step generates a complex type of FieldTypes under a name the
\* module has not declared
GeneratesField ==
  /\ Generated
  /\ last'.op = "complex"
  /\ last'.item \in FieldTypes
  /\ last'.item.name \notin Cur.declaredTypes

\* the name with its leading character in lower case
LowerFirst(name) == ToLowerCase(SubSeq(name, 1, 1)) \o SubSeq(name, 2, Len(name))

\* the second character of the name is a lower-case letter
SecondIsLower(name) ==
  /\ Len(name) >= 2
  /\ Includes(LowerLetters, SubSeq(name, 2, 2))

\* the name in literal-key quotes exactly when the source name has a hyphen
\* or a period
QuotedIfPunctuated(name, key) ==
  IF Includes(name, "-") \/ Includes(name, ".") THEN "'" \o key \o "'" ELSE key

\* the step emits one property whose key is this
EmitsKey(key) == EmitsOneMember /\ EmittedMember.key = key

LowerUnlessSecondLower ==
  GeneratesField =>
    LET name == last'.item.attribute[1].name
    IN EmitsKey(QuotedIfPunctuated(name,
         IF SecondIsLower(name) THEN name ELSE LowerFirst(name)))

(***************************************************************************)
(* C24.  As claimed: camelCase lower-cases the leading character of a      *)
(* field name unless the second character is already lower-case, in which  *)
(* case the leading character is left as is; the result is in literal-key  *)
(* quotes exactly when the name contains a hyphen or a period.             *)
(***************************************************************************)
C24_LowerUnlessSecondLower == [][LowerUnlessSecondLower]_vars

LowerWhenSecondLower ==
  GeneratesField =>
    LET name == last'.item.attribute[1].name
    IN EmitsKey(QuotedIfPunctuated(name,
         IF SecondIsLower(name) THEN LowerFirst(name) ELSE name))

(***************************************************************************)
(* C24, amended.  camelCase lower-cases the leading character of a field   *)
(* name exactly when the name has a second character and that character    *)
(* is a lower-case letter; otherwise (second character upper-case, a       *)
(* digit, punctuation, or none) the leading character is left as is.  The  *)
(* result is in literal-key quotes exactly when the name contains a hyphen *)
(* or a period.                                                            *)
(***************************************************************************)
C24_LowerWhenSecondLower == [][LowerWhenSecondLower]_vars

\* the attribute Ab-c has been emitted as the quoted property 'ab-c'
C24_Witness ==
  /\ last.op = "complex"
  /\ last.item \in FieldTypes
  /\ last.item.attribute[1].name = "Ab-c"
  /\ Len(Cur.nodes) = 1
  /\ Cur.nodes[1].members[1].key = "'ab-c'"

\* the schema types the mapper sends to a target primitive: numeric, string,
\* date-time value, universal unknown
PrimitiveXsdTypes ==
  NumberTypes \cup UnknownTypes \cup {Absent, "xs:token", "xs:string", "xs:dateTime"}

\* this step generates an alias or a property of a schema type that maps to
\* a target primitive
GeneratesPrimitiveReference ==
  /\ Generated
  /\ \/ /\ last'.op = "simple"
        /\ last'.item \in RestrictedTypes
        /\ last'.item.restriction[1].base \in PrimitiveXsdTypes
     \/ /\ last'.op = "complex"
        /\ last'.item \in PrimitiveMembers
        /\ last'.item.attribute[1].type \in PrimitiveXsdTypes

PrimitivesUntracked ==
  GeneratesPrimitiveReference =>
    /\ processors'[Len(processors)].usedTypes = Cur.usedTypes
    /\ Range(processors'[Len(processors)].usedTypes)
         \ processors'[Len(processors)].declaredTypes
       = Range(Cur.usedTypes) \ Cur.declaredTypes

(***************************************************************************)
(* C25.  A property or a simple-type alias whose schema type the mapper    *)
(* sends to a target primitive (numeric, string, date-time value,          *)
(* universal unknown) adds no name to UsedTypes, so it adds nothing to     *)
(* what import resolution has to look up: no import clause and no          *)
(* resolution warning come of it.                                          *)
(***************************************************************************)
C25_PrimitivesUntracked == [][PrimitivesUntracked]_vars

(***************************************************************************)
(* C26.  For every declaration a module has emitted, the identifier of the *)
(* declaration is the key recorded for it in DeclaredTypes and in the Type *)
(* Registry (the key under which the references to it, which are cleaned   *)
(* names, are looked up), so a reference from another module to a declared *)
(* type with a hyphen or a period in its name, or named Object, is found   *)
(* in the Registry.                                                        *)
(***************************************************************************)
C26_KeysAreIdentifiers ==
  \A i \in Procs : \A k \in Declarations(processors[i].nodes) :
    /\ processors[i].nodes[k].id \in processors[i].declaredTypes
    /\ processors[i].nodes[k].id \in DOMAIN links

\* the named aliases in the table of the Primitive Type Mapper: URI,
\* duration, positive integer, time
NamedAliases == {"AnyURI", "Duration", "PositiveInteger", "Time"}

(***************************************************************************)
(* C27.  Right after the Registry is seeded from the primitives module,    *)
(* and from then on, every named alias the table of the mapper can return  *)
(* has an owner in the Registry, so a reference to it resolves to an       *)
(* import and not to a warning.                                            *)
(***************************************************************************)
C27_NamedAliasesOwned == pc # "init" => NamedAliases \subseteq DOMAIN links

(***************************************************************************)
(* C28.  No import clause of a module names the module itself as its       *)
(* source, whatever the corpus, two documents with one file stem included. *)
(***************************************************************************)
C28_NoSelfImport ==
  \A i \in Procs : \A k \in Imports(processors[i].nodes) :
    processors[i].nodes[k].from # "./" \o processors[i].fileName

\* every declared name has a Registry entry
DeclaredAreRegistered ==
  \A i \in Procs : processors[i].declaredTypes \subseteq DOMAIN links

\* every Registry entry is a primitives name owned by the primitives module
\* or a name declared by a module of the owner's name
RegisteredAreDeclared ==
  \A name \in DOMAIN links :
    \/ links[name] = BASICS_FILENAME /\ name \in PrimitiveNames
    \/ \E i \in Procs : /\ processors[i].fileName = links[name]
                        /\ name \in processors[i].declaredTypes

(***************************************************************************)
(* C29.  In every state after seeding, every name in the DeclaredTypes of  *)
(* a module has a Registry entry, and every Registry entry name -> m is    *)
(* either a name of the primitives module owned by the primitives module   *)
(* or a name in the DeclaredTypes of a module named m.                     *)
(***************************************************************************)
C29_RegistryMatchesDeclared ==
  pc # "init" => DeclaredAreRegistered /\ RegisteredAreDeclared

\* two modules have declared one name, the Registry names the first of them
\* as its owner, and the run is over
C29_Witness ==
  /\ pc = "done"
  /\ Len(processors) = 2
  /\ processors[1].fileName # processors[2].fileName
  /\ \E name \in processors[1].declaredTypes \cap processors[2].declaredTypes :
       /\ name \notin PrimitiveNames
       /\ links[name] = processors[2].fileName

SkipIsNoOp ==
  (Generated /\ LastComplexType # <<>> /\ SelfExtending(LastComplexType[1]))
    => NoStateChange

(***************************************************************************)
(* C30.  Skipping a self-extending complex type changes nothing: the       *)
(* declaration list, DeclaredTypes and UsedTypes of the module, the Type   *)
(* Registry and the console are as before, and the run goes on, also when  *)
(* the type has an explicit sequence beside its complex content: the test  *)
(* for self-extension comes before the fatal one.                          *)
(***************************************************************************)
C30_SkipIsNoOp == [][SkipIsNoOp]_vars

\* a self-extending type with an explicit sequence has been skipped as the
\* second declaration of a module, which still has one declaration and no
\* used type
C30_Witness ==
  /\ pc = "prefix"
  /\ decls = 2
  /\ last.op = "complex"
  /\ SelfExtending(last.item)
  /\ last.item.sequence # <<>>
  /\ Len(Cur.nodes) = 1
  /\ Cur.declaredTypes = {Cur.nodes[1].id}
  /\ Cur.usedTypes = <<>>
  /\ DOMAIN links = PrimitiveNames \cup Cur.declaredTypes

====
